---- MODULE Spec2Model ----
(***************************************************************************)
(* Model of src/server.py: the schema-aware relevance resolver             *)
(* (find_relevant_tables, traverse_relationships), the query validator     *)
(* (validate_query_columns) and the request handler that drives them       *)
(* (generate_and_execute_sql).                                             *)
(*                                                                         *)
(* A word is a sequence of one-character strings, so that lower-casing,    *)
(* the singular/plural variations, the fuzzy score and the validator's     *)
(* regular expression are computed character by character.                 *)
(***************************************************************************)
EXTENDS Integers, Sequences, FiniteSets, TLC

\* ------------------------------------------------------------------------
\* Bounds of the model
\* ------------------------------------------------------------------------

\* Largest number of tables in a schema.
MaxTables == 2

\* Largest number of words in a prompt.
MaxPromptWords == 2

\* ------------------------------------------------------------------------
\* Characters and words
\* ------------------------------------------------------------------------

UpperChars == <<"A","B","C","D","E","F","G","H","I","J","K","L","M",
                "N","O","P","Q","R","S","T","U","V","W","X","Y","Z">>

LowerChars == <<"a","b","c","d","e","f","g","h","i","j","k","l","m",
                "n","o","p","q","r","s","t","u","v","w","x","y","z">>

Digits == {"0","1","2","3","4","5","6","7","8","9"}

UpperSet == {UpperChars[i] : i \in 1..26}

LowerSet == {LowerChars[i] : i \in 1..26}

LowerOf == [c \in UpperSet |-> LowerChars[CHOOSE i \in 1..26 : UpperChars[i] = c]]

\* str.lower() on one character.
LowerChar(c) == IF c \in UpperSet THEN LowerOf[c] ELSE c

\* str.lower()
Lower(w) == [i \in 1..Len(w) |-> LowerChar(w[i])]

\* The regular expression class \w: letters, digits and the underscore.
WordChars == UpperSet \cup LowerSet \cup Digits \cup {"_"}

IsWordChar(c) == c \in WordChars

\* The regular expression class \s.
SpaceChars == {" ", "\t", "\n"}

IsSpace(c) == c \in SpaceChars

Max(a, b) == IF a >= b THEN a ELSE b

\* The elements of a sequence, as a set.
Range(s) == {s[i] : i \in 1..Len(s)}

\* Whether x occurs in the sequence s (Python's "x in list").
InSeq(x, s) == \E i \in 1..Len(s) : s[i] = x

\* The names the schemas, prompts and queries of the model are built from.
w_assets         == <<"a","s","s","e","t","s">>
w_vessels        == <<"v","e","s","s","e","l","s">>
w_cradles        == <<"c","r","a","d","l","e","s">>
w_id             == <<"i","d">>
w_name           == <<"n","a","m","e">>
w_vesselName     == <<"v","e","s","s","e","l","N","a","m","e">>
w_assignedCradle == <<"a","s","s","i","g","n","e","d","C","r","a","d","l","e">>
w_cradleName     == <<"c","r","a","d","l","e","N","a","m","e">>
w_bogus_col      == <<"b","o","g","u","s","_","c","o","l">>
w_BOGUS          == <<"B","O","G","U","S">>
w_list           == <<"l","i","s","t">>
w_all            == <<"a","l","l">>
w_SELECT         == <<"S","E","L","E","C","T">>
w_FROM           == <<"F","R","O","M">>
w_from           == <<"f","r","o","m">>
w_COUNT          == <<"C","O","U","N","T">>

\* ------------------------------------------------------------------------
\* STOP_WORDS (the ones over the model's vocabulary are spelled out in full;
\* the set is the program's)
\* ------------------------------------------------------------------------

STOP_WORDS ==
    { <<"i","s">>, <<"a","s">>, w_list, w_all, <<"g","e","t">>,
      <<"r","e","t","r","i","e","v","e">>, <<"f","i","n","d">>, <<"t","o">>,
      <<"f","o","r">>, <<"o","n">>, <<"b","y">>, <<"i","n">>, <<"a","n","d">>,
      <<"o","f">>, <<"t","h","e">>, w_from,
      <<"a","s","s","i","g","n","e","d">> }

\* ------------------------------------------------------------------------
\* generate_variations: {word, singular_noun(word) or word, plural(word)}
\* ------------------------------------------------------------------------

EndsWith(w, suffix) ==
    /\ Len(w) >= Len(suffix)
    /\ SubSeq(w, Len(w) - Len(suffix) + 1, Len(w)) = suffix

\* inflect's plural() on a regular noun: -ss takes "es", everything else "s"
\* (it does not notice that a word is a plural already).
Plural(w) == IF EndsWith(w, <<"s","s">>) THEN w \o <<"e","s">> ELSE w \o <<"s">>

\* inflect's singular_noun() on a regular noun: the word without its final
\* "s", or FALSE (here: the empty word) when the word is no plural.
SingularNoun(w) ==
    IF Len(w) > 1 /\ EndsWith(w, <<"s">>) /\ ~EndsWith(w, <<"s","s">>)
    THEN SubSeq(w, 1, Len(w) - 1)
    ELSE <<>>

\* A sequence without its repeated elements, first occurrences kept.
RECURSIVE Dedup(_)
Dedup(s) ==
    IF s = <<>> THEN <<>>
    ELSE LET rest == Dedup(SubSeq(s, 1, Len(s) - 1))
             x == s[Len(s)]
         IN IF InSeq(x, rest) THEN rest ELSE Append(rest, x)

Reverse(s) == [i \in 1..Len(s) |-> s[Len(s) + 1 - i]]

\* The iteration orders of a Python set of strings the model distinguishes:
\* the order depends on the process's string hash seed.
HashSeeds == {"forward", "backward"}

\* generate_variations(word), in the order the set is iterated under a seed.
GenerateVariations(word, seed) ==
    LET sing == SingularNoun(word)
        elems == Dedup(<< word, IF sing = <<>> THEN word ELSE sing, Plural(word) >>)
    IN IF seed = "forward" THEN elems ELSE Reverse(elems)

\* ------------------------------------------------------------------------
\* rapidfuzz: fuzz.token_set_ratio and process.extractOne
\* ------------------------------------------------------------------------

\* One row of the longest-common-subsequence table: cur holds the entries
\* already computed for the character c of the first word.
RECURSIVE LcsRow(_, _, _, _)
LcsRow(prev, c, b, cur) ==
    IF Len(cur) = Len(b) THEN cur
    ELSE LET j == Len(cur) + 1
             left == IF j = 1 THEN 0 ELSE cur[j - 1]
             diag == IF j = 1 THEN 0 ELSE prev[j - 1]
             v == IF b[j] = c THEN diag + 1 ELSE Max(left, prev[j])
         IN LcsRow(prev, c, b, Append(cur, v))

RECURSIVE LcsRows(_, _, _)
LcsRows(a, b, prev) ==
    IF a = <<>> THEN prev
    ELSE LcsRows(Tail(a), b, LcsRow(prev, Head(a), b, <<>>))

\* Length of the longest common subsequence of two words, by the table.
LcsTable(a, b) ==
    IF a = <<>> \/ b = <<>> THEN 0
    ELSE LcsRows(a, b, [j \in 1..Len(b) |-> 0])[Len(b)]

\* The number of leading characters two words share.
RECURSIVE CommonPrefix(_, _, _)
CommonPrefix(a, b, n) ==
    IF n < Len(a) /\ n < Len(b) /\ a[n + 1] = b[n + 1]
    THEN CommonPrefix(a, b, n + 1) ELSE n

\* The number of trailing characters two words share.
RECURSIVE CommonSuffix(_, _, _)
CommonSuffix(a, b, n) ==
    IF n < Len(a) /\ n < Len(b) /\ a[Len(a) - n] = b[Len(b) - n]
    THEN CommonSuffix(a, b, n + 1) ELSE n

\* Length of the longest common subsequence of two words: the common prefix
\* and the common suffix belong to it (rapidfuzz removes them first), and
\* the table is filled for what is left.
LcsLen(a, b) ==
    LET p == CommonPrefix(a, b, 0)
        a1 == SubSeq(a, p + 1, Len(a))
        b1 == SubSeq(b, p + 1, Len(b))
        q == CommonSuffix(a1, b1, 0)
    IN p + q + LcsTable(SubSeq(a1, 1, Len(a1) - q), SubSeq(b1, 1, Len(b1) - q))

\* fuzz.token_set_ratio of two words without white space: 100 for equal
\* words, else the normalised indel similarity 100 * 2 * lcs / (|a| + |b|).
\* The score is kept as the fraction <<numerator, denominator>>.
TokenSetRatio(a, b) ==
    IF a = <<>> \/ b = <<>> THEN <<0, 1>>
    ELSE IF a = b THEN <<100, 1>>
    ELSE <<200 * LcsLen(a, b), Len(a) + Len(b)>>

ScoreGreater(s, t) == s[1] * t[2] > t[1] * s[2]

\* The threshold of a match: score > 60.
ScoreThreshold == 60

ScoreAccepted(s) == s[1] > ScoreThreshold * s[2]

\* process.extractOne(word, keys, scorer=fuzz.token_set_ratio): the index of
\* the best key, the first one found among equals; 0 when there is no key.
RECURSIVE ExtractOneFrom(_, _, _, _, _)
ExtractOneFrom(word, keys, i, best, best_score) ==
    IF i > Len(keys) THEN [index |-> best, score |-> best_score]
    ELSE LET score == TokenSetRatio(word, keys[i])
         IN IF best = 0 \/ ScoreGreater(score, best_score)
            THEN ExtractOneFrom(word, keys, i + 1, i, score)
            ELSE ExtractOneFrom(word, keys, i + 1, best, best_score)

ExtractOne(word, keys) == ExtractOneFrom(word, keys, 1, 0, <<0, 1>>)

\* ------------------------------------------------------------------------
\* The schema: schema.json as loaded, a dict in insertion order
\* ------------------------------------------------------------------------

\* The table names of the model's schemas, and the columns each declares.
TableNames == << w_assets, w_vessels, w_cradles >>

ColumnsOf(t) ==
    IF t = w_assets THEN << w_id, w_name >>
    ELSE IF t = w_vessels THEN << w_id, w_vesselName >>
    ELSE << w_id, w_cradleName >>

\* A table's value that is no dict (a JSON string, number or list).
NotADict == [type |-> "other"]

\* A "columns" value that is no list: a JSON number or null.
NotAList == [type |-> "number"]

ListOf(items) == [type |-> "list", items |-> items]

\* The foreign_keys a table of the model may declare: none, or one column
\* referencing any table name (the table may be absent from the schema).
ForeignKeyChoices ==
    { <<>> } \cup { << [column |-> w_assignedCradle, ref |-> TableNames[k]] >> :
                      k \in 1..Len(TableNames) }

\* The values a table may have in the schema: a dict with its list of
\* columns and any foreign keys, a dict whose columns are no list, and a
\* value that is no dict.
DetailsChoices(t) ==
    { NotADict, [type |-> "dict", columns |-> NotAList, foreign_keys |-> <<>>] }
    \cup { [type |-> "dict", columns |-> ListOf(ColumnsOf(t)), foreign_keys |-> fk] :
             fk \in ForeignKeyChoices }

\* The schemas of n tables: the first n table names, each with any of its
\* values.
RECURSIVE SchemasOfSize(_)
SchemasOfSize(n) ==
    IF n = 0 THEN { <<>> }
    ELSE { Append(sch, [name |-> TableNames[n], details |-> d]) :
             sch \in SchemasOfSize(n - 1), d \in DetailsChoices(TableNames[n]) }

\* The schemas of the model.
Schemas ==
    UNION { SchemasOfSize(n) : n \in 1..(IF MaxTables < Len(TableNames)
                                         THEN MaxTables ELSE Len(TableNames)) }

\* "table in schema"
InSchema(t, sch) == \E i \in 1..Len(sch) : sch[i].name = t

\* schema[table]
Details(t, sch) == sch[CHOOSE i \in 1..Len(sch) : sch[i].name = t].details

\* schema[table].get("foreign_keys", {}).values()
ForeignKeyValues(details) ==
    [i \in 1..Len(details.foreign_keys) |-> details.foreign_keys[i].ref]

\* ------------------------------------------------------------------------
\* Python dicts in insertion order, as sequences of key/value pairs
\* ------------------------------------------------------------------------

DictKeys(d) == [i \in 1..Len(d) |-> d[i].key]

\* d[key] = value: a new key goes last, a known key keeps its place.
DictSet(d, key, value) ==
    IF \E i \in 1..Len(d) : d[i].key = key
    THEN [i \in 1..Len(d) |-> IF d[i].key = key THEN [key |-> key, value |-> value]
                                                  ELSE d[i]]
    ELSE Append(d, [key |-> key, value |-> value])

\* for variation in variations: d[variation] = value
RECURSIVE DictSetAll(_, _, _)
DictSetAll(d, variations, value) ==
    IF variations = <<>> THEN d
    ELSE DictSetAll(DictSet(d, Head(variations), value), Tail(variations), value)

\* ------------------------------------------------------------------------
\* find_relevant_tables: tokens, variation maps and seed matches
\* ------------------------------------------------------------------------

\* The end of the run of \w characters that starts at position i.
RECURSIVE WordEnd(_, _)
WordEnd(text, i) ==
    IF i < Len(text) /\ IsWordChar(text[i + 1]) THEN WordEnd(text, i + 1) ELSE i

\* The positions where a maximal run of \w characters starts.
WordStarts(text) ==
    { i \in 1..Len(text) :
        IsWordChar(text[i]) /\ (i = 1 \/ ~IsWordChar(text[i - 1])) }

\* The elements of a finite set of integers in increasing order.
RECURSIVE SortedSeq(_)
SortedSeq(S) ==
    IF S = {} THEN <<>>
    ELSE LET m == CHOOSE x \in S : \A y \in S : x <= y
         IN << m >> \o SortedSeq(S \ {m})

\* re.findall(r'\w+', text)
FindWords(text) ==
    LET starts == SortedSeq(WordStarts(text))
    IN [k \in 1..Len(starts) |-> SubSeq(text, starts[k], WordEnd(text, starts[k]))]

\* [word for word in re.findall(r'\w+', prompt.lower()) if word not in STOP_WORDS]
PromptWords(prompt) == SelectSeq(FindWords(Lower(prompt)), LAMBDA w : w \notin STOP_WORDS)

\* table_map after the loop over schema.items(): the variations of the name
\* of every table whose value is a dict.
RECURSIVE BuildTableMap(_, _, _)
BuildTableMap(sch, seed, table_map) ==
    IF sch = <<>> THEN table_map
    ELSE LET table == Head(sch).name
             details == Head(sch).details
         IN IF details.type # "dict"
            THEN BuildTableMap(Tail(sch), seed, table_map)
            ELSE BuildTableMap(Tail(sch), seed,
                     DictSetAll(table_map, GenerateVariations(Lower(table), seed), table))

\* for column in columns: for variation in ...: column_map[variation] = table
RECURSIVE AddColumns(_, _, _, _)
AddColumns(column_map, columns, table, seed) ==
    IF columns = <<>> THEN column_map
    ELSE AddColumns(DictSetAll(column_map,
                               GenerateVariations(Lower(Head(columns)), seed), table),
                    Tail(columns), table, seed)

\* column_map after the loop over schema.items(): the variations of the
\* columns of every table whose value is a dict with a list of columns.
RECURSIVE BuildColumnMap(_, _, _)
BuildColumnMap(sch, seed, column_map) ==
    IF sch = <<>> THEN column_map
    ELSE LET table == Head(sch).name
             details == Head(sch).details
         IN IF details.type # "dict" \/ details.columns.type # "list"
            THEN BuildColumnMap(Tail(sch), seed, column_map)
            ELSE BuildColumnMap(Tail(sch), seed,
                     AddColumns(column_map, details.columns.items, table, seed))

\* The table a word matches in one map, as a set: the owner of the best key
\* when its score is above the threshold, else nothing.
MatchIn(word, map) ==
    LET match == ExtractOne(word, DictKeys(map))
    IN IF match.index # 0 /\ ScoreAccepted(match.score)
       THEN { map[match.index].value }
       ELSE {}

\* matched_tables after the loop over prompt_words.
MatchedTables(prompt, sch, seed) ==
    LET words == PromptWords(prompt)
        table_map == BuildTableMap(sch, seed, <<>>)
        column_map == BuildColumnMap(sch, seed, <<>>)
    IN UNION { MatchIn(words[k], table_map) \cup MatchIn(words[k], column_map) :
               k \in 1..Len(words) }

\* ------------------------------------------------------------------------
\* validate_query_columns
\* ------------------------------------------------------------------------

\* The first position at or after k that holds no white space.
RECURSIVE SkipSpaces(_, _)
SkipSpaces(text, k) ==
    IF k <= Len(text) /\ IsSpace(text[k]) THEN SkipSpaces(text, k + 1) ELSE k

\* The lookahead without its end-of-string alternative.
Lookahead_NoEndOfString(text, k) ==
    LET m == SkipSpaces(text, k)
    IN \/ m <= Len(text) /\ text[m] \in {",", ")"}
       \/ /\ m > k
          /\ m + 4 <= Len(text)
          /\ Lower(SubSeq(text, m, m + 3)) = w_from
          /\ IsSpace(text[m + 4])

\* The lookahead (?=\s*[,)]|\s+FROM\s+|\s*$) at position k, re.IGNORECASE.
Lookahead(text, k) ==
    LET m == SkipSpaces(text, k)
    IN \/ m <= Len(text) /\ text[m] \in {",", ")"}
       \/ /\ m > k
          /\ m + 4 <= Len(text)
          /\ Lower(SubSeq(text, m, m + 3)) = w_from
          /\ IsSpace(text[m + 4])
       \/ m = Len(text) + 1

\* re.findall(r'\b\w+\b(?=\s*[,)]|\s+FROM\s+|\s*$)', query, re.IGNORECASE)
FindColumns(query) ==
    LET starts == SortedSeq({ i \in WordStarts(query) :
                                Lookahead(query, WordEnd(query, i) + 1) })
    IN [k \in 1..Len(starts) |-> SubSeq(query, starts[k], WordEnd(query, starts[k]))]

\* The inner loop over the candidates, for one table's valid_columns.
RECURSIVE CheckColumns(_, _, _)
CheckColumns(columns, valid_columns, invalid_columns) ==
    IF columns = <<>> THEN invalid_columns
    ELSE LET column == Head(columns)
             valid == [i \in 1..Len(valid_columns) |-> Lower(valid_columns[i])]
         IN IF ~InSeq(Lower(column), valid) /\ ~InSeq(Lower(column), invalid_columns)
            THEN CheckColumns(Tail(columns), valid_columns, Append(invalid_columns, column))
            ELSE CheckColumns(Tail(columns), valid_columns, invalid_columns)

\* The outer loop over relevant_tables, iterated in the order `tables`. The
\* result is the list, or the exception the loop raises: KeyError for a
\* table that is no key of the schema, AttributeError for a value that is no
\* dict, TypeError for iterating columns that are a number.
RECURSIVE CheckTables(_, _, _, _)
CheckTables(tables, columns, sch, invalid_columns) ==
    IF tables = <<>> THEN [error |-> "none", invalid_columns |-> invalid_columns]
    ELSE LET table == Head(tables)
         IN IF ~InSchema(table, sch)
            THEN [error |-> "KeyError", invalid_columns |-> <<>>]
            ELSE IF Details(table, sch).type # "dict"
            THEN [error |-> "AttributeError", invalid_columns |-> <<>>]
            ELSE IF Details(table, sch).columns.type # "list"
            THEN IF columns # <<>>
                 THEN [error |-> "TypeError", invalid_columns |-> <<>>]
                 ELSE CheckTables(Tail(tables), columns, sch, invalid_columns)
            ELSE CheckTables(Tail(tables), columns, sch,
                     CheckColumns(columns, Details(table, sch).columns.items,
                                  invalid_columns))

ValidateQueryColumns(query, sch, tables) ==
    CheckTables(tables, FindColumns(query), sch, <<>>)

\* The orders in which a set may be iterated.
RECURSIVE Orders(_)
Orders(S) ==
    IF S = {} THEN { <<>> }
    ELSE UNION { { << x >> \o rest : rest \in Orders(S \ {x}) } : x \in S }

\* ------------------------------------------------------------------------
\* The prompts and the generated queries of the model
\* ------------------------------------------------------------------------

sp == << " " >>

\* The words a prompt is written with: a stop word, the capitalised singular
\* of a table name, a column name.
w_Vessel == <<"V","e","s","s","e","l">>

PromptVocabulary == { w_list, w_Vessel, w_name }

\* The prompts of n words, separated by one space.
RECURSIVE PromptsOfSize(_)
PromptsOfSize(n) ==
    IF n = 0 THEN { <<>> }
    ELSE IF n = 1 THEN PromptVocabulary
    ELSE { p \o sp \o w : p \in PromptsOfSize(n - 1), w \in PromptVocabulary }

Prompts == UNION { PromptsOfSize(n) : n \in 0..MaxPromptWords }

\* The identifiers a generated query selects.
QueryIdentifiers == { w_name, w_bogus_col }

\* "SELECT <columns> FROM <table>"
SelectFrom(columns, table) == w_SELECT \o sp \o columns \o sp \o w_FROM \o sp \o table

\* What the generator may return, stripped: selections of two identifiers,
\* of an upper-case identifier twice, a function call with a statement
\* terminator, lower-case keywords, and the empty string.
Queries ==
    { SelectFrom(c \o << ",", " " >> \o d, w_assets) :
        c \in QueryIdentifiers, d \in QueryIdentifiers }
    \cup { SelectFrom(w_BOGUS \o << ",", " " >> \o w_BOGUS, w_assets) }
    \cup { w_SELECT \o sp \o w_COUNT \o << "(" >> \o w_id \o << ")" >> \o sp
             \o w_FROM \o sp \o w_vessels \o << ";" >>,
           <<"s","e","l","e","c","t">> \o sp \o w_id \o sp \o w_from \o sp \o w_vessels,
           <<>> }

\* ------------------------------------------------------------------------
\* State: one request to /generate-and-execute-sql
\* ------------------------------------------------------------------------

VARIABLES
    schema,           \* the module-level schema, loaded once
    prompt,           \* data.get("prompt")
    pc,               \* where the handler is
    matched_tables,   \* find_relevant_tables: the seed matches
    pending,          \* the seeds the loop of line 147 has yet to reach
    relevant_tables,  \* find_relevant_tables: the set the closure grows
    stack,            \* the frames of traverse_relationships, innermost last
    traversed,        \* the tables traverse_relationships was called with
    result,           \* the handler's relevant_tables, once bound (line 215)
    generated_query,  \* the handler's generated_query, once bound (line 235)
    invalid_columns,  \* the handler's invalid_columns, once bound (line 239)
    generator_calls,  \* the prompts handed to the generator
    executor_calls,   \* the queries handed to execute_query
    response,         \* what the handler returned
    other             \* the locals of a second request while it does not run

vars == << schema, prompt, pc, matched_tables, pending, relevant_tables, stack,
           traversed, result, generated_query, invalid_columns, generator_calls,
           executor_calls, response, other >>

Unbound == [bound |-> FALSE]

Bound(value) == [bound |-> TRUE, value |-> value]

NoResponse == [status |-> 0]

\* No second request.
NoRequest == [pc |-> "absent"]

\* The locals of a request that has just arrived with the prompt `text`.
NewRequest(text) ==
    [prompt |-> text, pc |-> "request", matched_tables |-> {}, pending |-> {},
     relevant_tables |-> {}, stack |-> <<>>, traversed |-> <<>>,
     result |-> Unbound, generated_query |-> Unbound, invalid_columns |-> Unbound,
     generator_calls |-> <<>>, executor_calls |-> <<>>, response |-> NoResponse]

Init ==
    /\ schema \in Schemas
    /\ prompt \in Prompts
    /\ pc = "request"
    /\ matched_tables = {}
    /\ pending = {}
    /\ relevant_tables = {}
    /\ stack = <<>>
    /\ traversed = <<>>
    /\ result = Unbound
    /\ generated_query = Unbound
    /\ invalid_columns = Unbound
    /\ generator_calls = <<>>
    /\ executor_calls = <<>>
    /\ response = NoResponse
    /\ other = NoRequest

\* The 400 responses of lines 210 and 217.
Rejected(message) ==
    [status |-> 400, error |-> message, generated_query |-> Unbound]

\* The response of the except clause, lines 253-260.
Failed(error, res, query) ==
    [status |-> 500, error |-> error, input_prompt |-> prompt,
     relevant_tables |-> IF res.bound THEN res.value ELSE {},
     generated_query |-> query]

\* The response of lines 246-251.
Succeeded(results) ==
    [status |-> 200, input_prompt |-> prompt, relevant_tables |-> result.value,
     generated_query |-> generated_query.value, results |-> results]

\* Lines 206-210: the prompt is read; a missing or empty one is rejected.
ReceiveRequest ==
    /\ pc = "request"
    /\ IF prompt = <<>>
       THEN /\ response' = Rejected("Missing 'prompt' in request")
            /\ pc' = "done"
       ELSE /\ pc' = "resolve"
            /\ UNCHANGED response
    /\ UNCHANGED << schema, other, prompt, matched_tables, pending, relevant_tables, stack,
                    traversed, result, generated_query, invalid_columns,
                    generator_calls, executor_calls >>

\* Lines 116-146: the tokens, the two variation maps and the seed matches;
\* relevant_tables starts as a copy of matched_tables.
FindRelevantTables ==
    /\ pc = "resolve"
    /\ \E seed \in HashSeeds :
         matched_tables' = MatchedTables(prompt, schema, seed)
    /\ relevant_tables' = matched_tables'
    /\ pending' = matched_tables'
    /\ pc' = "closure"
    /\ UNCHANGED << schema, other, prompt, stack, traversed, result, generated_query,
                    invalid_columns, generator_calls, executor_calls, response >>

\* Whether traverse_relationships(table, ...) raises: schema[table] is no
\* dict and has no .get.
CallRaises(table) == InSchema(table, schema) /\ Details(table, schema).type # "dict"

\* The frame of a traversal that also follows the foreign keys pointing at
\* the table.
CallFrames_WithReverse(table) ==
    IF ~InSchema(table, schema) THEN <<>>
    ELSE LET referencing ==
                 SelectSeq(schema, LAMBDA entry :
                     /\ entry.details.type = "dict"
                     /\ \E i \in 1..Len(entry.details.foreign_keys) :
                          entry.details.foreign_keys[i].ref = table)
             names == [i \in 1..Len(referencing) |-> referencing[i].name]
         IN << [table |-> table,
                todo |-> ForeignKeyValues(Details(table, schema)) \o names] >>

\* The frame a call of traverse_relationships(table, ...) opens: none when
\* the table is not in the schema (lines 101-103), else the loop over the
\* foreign-key targets.
CallFrames(table) ==
    IF ~InSchema(table, schema) THEN <<>>
    ELSE << [table |-> table, todo |-> ForeignKeyValues(Details(table, schema))] >>

\* The call of traverse_relationships(table, ...) with the frames `frames`
\* below it. The exception leaves find_relevant_tables and ends the request
\* with the except clause's response: the handler's relevant_tables was
\* never bound.
Call(table, frames) ==
    /\ traversed' = Append(traversed, table)
    /\ IF CallRaises(table)
       THEN /\ stack' = <<>>
            /\ response' = Failed("AttributeError", Unbound, Unbound)
            /\ pc' = "done"
       ELSE /\ stack' = frames \o CallFrames(table)
            /\ UNCHANGED << pc, response >>

\* The loop over matched_tables that ends after its first table.
TraverseSeed_FirstOnly ==
    /\ pc = "closure"
    /\ stack = <<>>
    /\ \E table \in pending :
         /\ pending' = {}
         /\ Call(table, <<>>)
    /\ UNCHANGED << schema, other, prompt, matched_tables, relevant_tables, result,
                    generated_query, invalid_columns, generator_calls,
                    executor_calls >>

\* Lines 147-148: the loop over matched_tables reaches its next table, in
\* the set's iteration order.
TraverseSeed ==
    /\ pc = "closure"
    /\ stack = <<>>
    /\ \E table \in pending :
         /\ pending' = pending \ {table}
         /\ Call(table, <<>>)
    /\ UNCHANGED << schema, other, prompt, matched_tables, relevant_tables, result,
                    generated_query, invalid_columns, generator_calls,
                    executor_calls >>

\* The loop step that adds a new target without traversing it.
TraverseNext_NoRecursion ==
    /\ pc = "closure"
    /\ stack # <<>>
    /\ LET top == stack[Len(stack)]
           below == SubSeq(stack, 1, Len(stack) - 1)
       IN /\ top.todo # <<>>
          /\ stack' = Append(below, [top EXCEPT !.todo = Tail(top.todo)])
          /\ relevant_tables' = relevant_tables \cup {Head(top.todo)}
    /\ UNCHANGED << schema, other, prompt, pc, matched_tables, pending, traversed, result,
                    generated_query, invalid_columns, generator_calls,
                    executor_calls, response >>

\* The loop step that traverses every target, whether visited or not.
TraverseNext_NoVisitedCheck ==
    /\ pc = "closure"
    /\ stack # <<>>
    /\ LET top == stack[Len(stack)]
           below == SubSeq(stack, 1, Len(stack) - 1)
       IN /\ top.todo # <<>>
          /\ relevant_tables' = relevant_tables \cup {Head(top.todo)}
          /\ Call(Head(top.todo), Append(below, [top EXCEPT !.todo = Tail(top.todo)]))
    /\ UNCHANGED << schema, other, prompt, matched_tables, pending, result,
                    generated_query, invalid_columns, generator_calls,
                    executor_calls >>

\* Lines 105-108: the innermost loop takes its next foreign-key target; a
\* target not yet in relevant_tables is added, then traversed.
TraverseNext ==
    /\ pc = "closure"
    /\ stack # <<>>
    /\ LET top == stack[Len(stack)]
           below == SubSeq(stack, 1, Len(stack) - 1)
       IN /\ top.todo # <<>>
          /\ LET related_table == Head(top.todo)
                 frames == Append(below, [top EXCEPT !.todo = Tail(top.todo)])
             IN IF related_table \notin relevant_tables
                THEN /\ relevant_tables' = relevant_tables \cup {related_table}
                     /\ Call(related_table, frames)
                ELSE /\ stack' = frames
                     /\ UNCHANGED << relevant_tables, traversed, pc, response >>
    /\ UNCHANGED << schema, other, prompt, matched_tables, pending, result,
                    generated_query, invalid_columns, generator_calls,
                    executor_calls >>

\* The innermost loop is exhausted: traverse_relationships returns.
TraverseReturn ==
    /\ pc = "closure"
    /\ stack # <<>>
    /\ stack[Len(stack)].todo = <<>>
    /\ stack' = SubSeq(stack, 1, Len(stack) - 1)
    /\ UNCHANGED << schema, other, prompt, pc, matched_tables, pending, relevant_tables,
                    traversed, result, generated_query, invalid_columns,
                    generator_calls, executor_calls, response >>

\* context = {table: schema[table] for table in relevant_tables} raises
\* KeyError for a table that is no key of the schema.
ContextRaises(tables) == \E table \in tables : ~InSchema(table, schema)

\* The return to a handler that does not reject an empty set.
CheckRelevantTables_NoEmptyCheck ==
    /\ pc = "closure"
    /\ stack = <<>>
    /\ pending = {}
    /\ result' = Bound(relevant_tables)
    /\ IF ContextRaises(relevant_tables)
       THEN /\ response' = Failed("KeyError", result', Unbound)
            /\ pc' = "done"
       ELSE /\ pc' = "generate"
            /\ UNCHANGED response
    /\ UNCHANGED << schema, other, prompt, matched_tables, pending, relevant_tables, stack,
                    traversed, generated_query, invalid_columns, generator_calls,
                    executor_calls >>

\* Lines 150-151 and 215-221: find_relevant_tables returns its set; the
\* handler rejects an empty one, and builds the generator's context from a
\* non-empty one.
CheckRelevantTables ==
    /\ pc = "closure"
    /\ stack = <<>>
    /\ pending = {}
    /\ result' = Bound(relevant_tables)
    /\ IF relevant_tables = {}
       THEN /\ response' = Rejected("No relevant tables found for the prompt")
            /\ pc' = "done"
       ELSE IF ContextRaises(relevant_tables)
       THEN /\ response' = Failed("KeyError", result', Unbound)
            /\ pc' = "done"
       ELSE /\ pc' = "generate"
            /\ UNCHANGED response
    /\ UNCHANGED << schema, other, prompt, matched_tables, pending, relevant_tables, stack,
                    traversed, generated_query, invalid_columns, generator_calls,
                    executor_calls >>

\* Lines 224-236: the generator is called with the prompt and the context;
\* it returns a query, or fails.
Generate ==
    /\ pc = "generate"
    /\ generator_calls' = Append(generator_calls, prompt)
    /\ \/ \E query \in Queries :
            /\ generated_query' = Bound(query)
            /\ pc' = "validate"
            /\ UNCHANGED response
       \/ /\ response' = Failed("GeneratorError", result, Unbound)
          /\ pc' = "done"
          /\ UNCHANGED generated_query
    /\ UNCHANGED << schema, other, prompt, matched_tables, pending, relevant_tables, stack,
                    traversed, result, invalid_columns, executor_calls >>

\* Lines 239-241: the generated query is validated against the relevant
\* tables, iterated in the set's order; the flagged list is logged.
Validate ==
    /\ pc = "validate"
    /\ \E tables \in Orders(result.value) :
         LET checked == ValidateQueryColumns(generated_query.value, schema, tables)
         IN IF checked.error # "none"
            THEN /\ response' = Failed(checked.error, result, generated_query)
                 /\ pc' = "done"
                 /\ UNCHANGED invalid_columns
            ELSE /\ invalid_columns' = Bound(checked.invalid_columns)
                 /\ pc' = "execute"
                 /\ UNCHANGED response
    /\ UNCHANGED << schema, other, prompt, matched_tables, pending, relevant_tables, stack,
                    traversed, result, generated_query, generator_calls,
                    executor_calls >>

\* The rows execute_query may return.
Results == { << "row" >> }

\* Lines 244-251: the query is executed; its rows are returned, or the
\* database error becomes the except clause's response.
Execute ==
    /\ pc = "execute"
    /\ executor_calls' = Append(executor_calls, generated_query.value)
    /\ \/ \E results \in Results : response' = Succeeded(results)
       \/ response' = Failed("DatabaseError", result, generated_query)
    /\ pc' = "done"
    /\ UNCHANGED << schema, other, prompt, matched_tables, pending, relevant_tables, stack,
                    traversed, result, generated_query, invalid_columns,
                    generator_calls >>

Next ==
    \/ ReceiveRequest
    \/ FindRelevantTables
    \/ TraverseSeed
    \/ TraverseNext
    \/ TraverseReturn
    \/ CheckRelevantTables
    \/ Generate
    \/ Validate
    \/ Execute

Spec == Init /\ [][Next]_vars

\* A step of the relationship closure, or its return to the handler.
ClosureStep ==
    \/ TraverseSeed
    \/ TraverseNext
    \/ TraverseReturn
    \/ CheckRelevantTables

\* find_relevant_tables is synchronous code that waits on nothing: while a
\* step of the closure is possible, one is taken.
FairSpec == Spec /\ WF_vars(ClosureStep)

\* ------------------------------------------------------------------------
\* Two requests at once
\* ------------------------------------------------------------------------

\* The locals of the request that runs.
Locals ==
    [prompt |-> prompt, pc |-> pc, matched_tables |-> matched_tables,
     pending |-> pending, relevant_tables |-> relevant_tables, stack |-> stack,
     traversed |-> traversed, result |-> result,
     generated_query |-> generated_query, invalid_columns |-> invalid_columns,
     generator_calls |-> generator_calls, executor_calls |-> executor_calls,
     response |-> response]

\* The switch that keeps relevant_tables where it is: one set for both
\* requests.
Switch_SharedRelevantTables ==
    /\ other.pc \notin {"absent", "done"}
    /\ other' = Locals
    /\ prompt' = other.prompt
    /\ pc' = other.pc
    /\ matched_tables' = other.matched_tables
    /\ pending' = other.pending
    /\ stack' = other.stack
    /\ traversed' = other.traversed
    /\ result' = other.result
    /\ generated_query' = other.generated_query
    /\ invalid_columns' = other.invalid_columns
    /\ generator_calls' = other.generator_calls
    /\ executor_calls' = other.executor_calls
    /\ response' = other.response
    /\ UNCHANGED << schema, relevant_tables >>

\* The server handles each request on a thread of its own: the thread that
\* runs is suspended and the other one goes on. Every name the handler and
\* the three functions assign is a local of the call, so each thread has its
\* own; the module-level schema is the one object both read.
Switch ==
    /\ other.pc \notin {"absent", "done"}
    /\ other' = Locals
    /\ prompt' = other.prompt
    /\ pc' = other.pc
    /\ matched_tables' = other.matched_tables
    /\ pending' = other.pending
    /\ relevant_tables' = other.relevant_tables
    /\ stack' = other.stack
    /\ traversed' = other.traversed
    /\ result' = other.result
    /\ generated_query' = other.generated_query
    /\ invalid_columns' = other.invalid_columns
    /\ generator_calls' = other.generator_calls
    /\ executor_calls' = other.executor_calls
    /\ response' = other.response
    /\ UNCHANGED schema

\* The schemas of two tables whose values are records with a list of columns.
ConcurrentSchemas ==
    { sch \in SchemasOfSize(2) :
        \A i \in 1..Len(sch) :
            /\ sch[i].details.type = "dict"
            /\ sch[i].details.columns.type = "list" }

\* Two requests have arrived, each with a prompt of one word.
ConcurrentInit ==
    /\ schema \in ConcurrentSchemas
    /\ prompt \in PromptsOfSize(1)
    /\ pc = "request"
    /\ matched_tables = {}
    /\ pending = {}
    /\ relevant_tables = {}
    /\ stack = <<>>
    /\ traversed = <<>>
    /\ result = Unbound
    /\ generated_query = Unbound
    /\ invalid_columns = Unbound
    /\ generator_calls = <<>>
    /\ executor_calls = <<>>
    /\ response = NoResponse
    /\ \E second \in PromptsOfSize(1) : other = NewRequest(second)

ConcurrentNext ==
    \/ Next
    \/ Switch

ConcurrentSpec == ConcurrentInit /\ [][ConcurrentNext]_vars

\* ------------------------------------------------------------------------
\* Properties
\* ------------------------------------------------------------------------

\* The foreign-key targets a table declares in the schema.
DeclaredTargets(table) ==
    IF InSchema(table, schema) /\ Details(table, schema).type = "dict"
    THEN { Details(table, schema).foreign_keys[i].ref :
             i \in 1..Len(Details(table, schema).foreign_keys) }
    ELSE {}

\* Whether an identifier names, in any letter case, a column of the table.
IsColumnOf(identifier, table) ==
    /\ InSchema(table, schema)
    /\ Details(table, schema).type = "dict"
    /\ Details(table, schema).columns.type = "list"
    /\ \E i \in 1..Len(Details(table, schema).columns.items) :
         Lower(Details(table, schema).columns.items[i]) = Lower(identifier)

\* C1: with two or more relevant tables, an identifier that is a column of
\* at least one relevant table is never in the flagged list.
C1_ColumnOfSomeTableNeverFlagged ==
    (invalid_columns.bound /\ Cardinality(result.value) >= 2) =>
        \A i \in 1..Len(invalid_columns.value) :
            ~ \E table \in result.value : IsColumnOf(invalid_columns.value[i], table)

\* The schema and the query of the validator's example.
AssetsSchema ==
    << [name |-> w_assets,
        details |-> [type |-> "dict", columns |-> ListOf(<< w_id, w_name >>),
                     foreign_keys |-> <<>>]] >>

BogusColQuery == SelectFrom(w_name \o << ",", " " >> \o w_bogus_col, w_assets)

ExampleValidated ==
    /\ schema = AssetsSchema
    /\ result.bound
    /\ result.value = { w_assets }
    /\ generated_query.bound
    /\ generated_query.value = BogusColQuery
    /\ invalid_columns.bound

\* C2 as stated: for the schema {assets: [id, name]}, the relevant tables
\* {assets} and the query "SELECT name, bogus_col FROM assets", the flagged
\* list is exactly [bogus_col].
C2_ExampleFlagsOnlyBogusCol ==
    ExampleValidated => invalid_columns.value = << w_bogus_col >>

\* C2 as amended: for that schema, set and query the flagged list is exactly
\* [bogus_col, assets]: the table name after FROM stands at the end of the
\* string, so it is a candidate, and it is no column of assets.
C2_ExampleFlagsBogusColAndTable ==
    ExampleValidated => invalid_columns.value = << w_bogus_col, w_assets >>

C2_Witness == ExampleValidated /\ pc = "execute"

\* C3: every table name in the set find_relevant_tables returns is a key of
\* the schema (a foreign key to an absent table adds nothing).
C3_ResultWithinSchema ==
    result.bound => \A table \in result.value : InSchema(table, schema)

\* C4: validate_query_columns raises no error, for every query and every
\* set find_relevant_tables returned on the schema, iterated in any order.
C4_ValidateNeverFails ==
    result.bound =>
        \A query \in Queries : \A tables \in Orders(result.value) :
            ValidateQueryColumns(query, schema, tables).error = "none"

\* C5: for every table T in the returned set and every foreign key T -> U
\* the schema declares, U is in the returned set.
C5_ClosureInvariant ==
    result.bound =>
        \A table \in result.value : DeclaredTargets(table) \subseteq result.value

\* A returned set holding a table that was added during the traversal and
\* declares a foreign key itself.
C5_Witness ==
    /\ result.bound
    /\ \E table \in result.value \ matched_tables : DeclaredTargets(table) # {}

\* No table was passed to traverse_relationships twice.
TraversedAtMostOnce ==
    \A i, j \in 1..Len(traversed) : traversed[i] = traversed[j] => i = j

\* Every value of the schema is a dict.
AllDicts == \A i \in 1..Len(schema) : schema[i].details.type = "dict"

\* The closure left find_relevant_tables by an exception.
ClosureRaised == pc = "done" /\ response.status = 500 /\ ~result.bound

C7_EmptyResultRejected ==
    (result.bound /\ result.value = {}) =>
        /\ pc = "done"
        /\ response.status = 400
        /\ response.error = "No relevant tables found for the prompt"
        /\ generator_calls = <<>>
        /\ executor_calls = <<>>

\* A rejected request whose prompt holds stop words only.
C7_Witness ==
    /\ result.bound
    /\ result.value = {}
    /\ prompt # <<>>
    /\ PromptWords(prompt) = <<>>
    /\ response.status = 400

\* C8: in every request where the generator returned a query, the executor
\* is invoked with that query.
C8_GeneratedQueryExecuted ==
    (pc = "done" /\ generated_query.bound) =>
        executor_calls = << generated_query.value >>

\* C9: when the validator flags at least one identifier, the response
\* carries the flagged identifiers.
C9_FlaggedAttachedToResponse ==
    (pc = "done" /\ invalid_columns.bound /\ invalid_columns.value # <<>>) =>
        /\ "invalid_columns" \in DOMAIN response
        /\ response.invalid_columns = invalid_columns.value

\* A schema entry whose value is no dict, or whose columns are no list.
Malformed(entry) ==
    \/ entry.details.type # "dict"
    \/ entry.details.columns.type # "list"

\* C10: a malformed schema entry is never a seed match of
\* find_relevant_tables.
C10_MalformedNeverMatched ==
    pc \notin {"request", "resolve"} =>
        \A i \in 1..Len(schema) :
            Malformed(schema[i]) => schema[i].name \notin matched_tables

\* The least set that holds the given tables and every foreign-key target
\* its tables declare.
RECURSIVE ForwardClosure(_)
ForwardClosure(tables) ==
    LET grown == tables \cup UNION { DeclaredTargets(table) : table \in tables }
    IN IF grown = tables THEN tables ELSE ForwardClosure(grown)

\* find_relevant_tables has just returned to the handler.
JustReturned == result.bound /\ generator_calls = <<>>

\* find_relevant_tables has just collected its seed matches.
JustMatched == pc = "closure" /\ traversed = <<>>

Tokens(text) == Range(PromptWords(text))

\* The set find_relevant_tables builds for a prompt: the forward closure of
\* its seed matches.
RelevantFor(text, seed) == ForwardClosure(MatchedTables(text, schema, seed))

\* Whether find_relevant_tables raises on a prompt: the traversal reaches a
\* schema value that is no dict.
FindRelevantTablesRaises(text, seed) ==
    \E table \in RelevantFor(text, seed) : CallRaises(table)

\* C12: when find_relevant_tables has returned a set for the prompt, then on
\* every prompt whose non-stop-word tokens include this prompt's it returns
\* too, and returns a superset of that set.
C12_Monotone ==
    JustReturned =>
        \A longer \in Prompts : \A seed \in HashSeeds :
            Tokens(prompt) \subseteq Tokens(longer) =>
                /\ ~FindRelevantTablesRaises(longer, seed)
                /\ result.value \subseteq RelevantFor(longer, seed)

\* C14: the flagged list holds no identifier twice, letter case ignored.
C14_NoDuplicateFlags ==
    invalid_columns.bound =>
        \A i, j \in 1..Len(invalid_columns.value) :
            Lower(invalid_columns.value[i]) = Lower(invalid_columns.value[j]) => i = j

\* The position of the first occurrence of an identifier among the
\* candidates of the query.
FirstOccurrence(identifier, columns) ==
    CHOOSE k \in 1..Len(columns) :
        /\ columns[k] = identifier
        /\ \A h \in 1..(k - 1) : columns[h] # identifier

\* C15: the flagged list is in first-seen order: of two flagged identifiers,
\* the one that occurs first in the query stands first in the list.
C15_FirstSeenOrder ==
    invalid_columns.bound =>
        LET columns == FindColumns(generated_query.value)
            flagged == invalid_columns.value
        IN \A i, j \in 1..Len(flagged) :
               i < j => FirstOccurrence(flagged[i], columns)
                          <= FirstOccurrence(flagged[j], columns)

\* C16: the returned set is exactly the seed matches and the tables reached
\* from them along declared foreign keys; a table that declares a foreign
\* key to a returned table, and is neither a seed match nor reached that
\* way, is not in it.
C16_ForwardOnly ==
    JustReturned =>
        LET reached == ForwardClosure(matched_tables)
        IN /\ result.value = reached
           /\ \A i \in 1..Len(schema) :
                (/\ DeclaredTargets(schema[i].name) \cap result.value # {}
                 /\ schema[i].name \notin reached)
                    => schema[i].name \notin result.value

\* A returned set and a table outside it that declares a foreign key to one
\* of the seed matches.
C16_Witness ==
    /\ JustReturned
    /\ \E i \in 1..Len(schema) :
         /\ schema[i].name \notin result.value
         /\ DeclaredTargets(schema[i].name) \cap matched_tables # {}

\* A step of the request that runs, the other one staying suspended.
OwnStep == other' = other

\* find_relevant_tables returns to the request that runs: the set it returns
\* is the one it builds for the request's prompt on the schema.
ReturnsAsAlone ==
    (OwnStep /\ ~result.bound /\ result'.bound) =>
        \A seed \in HashSeeds : result'.value = RelevantFor(prompt, seed)

\* validate_query_columns returns to the request that runs: the list it
\* returns is one it builds for the request's query and set on the schema.
FlagsAsAlone ==
    (OwnStep /\ ~invalid_columns.bound /\ invalid_columns'.bound) =>
        \E tables \in Orders(result.value) :
            LET checked == ValidateQueryColumns(generated_query.value, schema, tables)
            IN /\ checked.error = "none"
               /\ checked.invalid_columns = invalid_columns'.value

\* C13: two requests do not interact: no step modifies the schema, a step
\* of one request leaves the locals of the other as they are, and under
\* every interleaving the relevant set and the flagged list a request gets
\* are the ones it gets when it runs alone.
C13_NoInterference ==
    [][ /\ schema' = schema
        /\ OwnStep \/ (other' = Locals /\ Locals' = other)
        /\ ReturnsAsAlone
        /\ FlagsAsAlone ]_vars

\* Both requests are in flight with their flagged lists bound, and their
\* prompts, relevant sets and flagged lists differ.
C13_Witness ==
    /\ pc = "execute"
    /\ other.pc = "execute"
    /\ prompt # other.prompt
    /\ result.value # other.result.value
    /\ invalid_columns.value # other.invalid_columns.value

====
